---- MODULE Spec2Model ----
(***************************************************************************)
(* Model of the Heaven AI Arena LLM service (src/llm_service/main.py):     *)
(* the model registry of ModelManager (load_model and its loaders), the    *)
(* response cache and generation dispatch (generate_text), the /generate   *)
(* endpoint with its background request log, and stop-sequence handling.   *)
(*                                                                         *)
(* Strings are sequences of one-character strings.  Every handler is one   *)
(* atomic action: the coroutines of the service never suspend (the loaders *)
(* and the runtime clients are blocking calls), so a handler runs to its   *)
(* end before the event loop starts another one.                           *)
(***************************************************************************)
EXTENDS Integers, Sequences, FiniteSets, TLC

VARIABLES
    models,        \* ModelManager.models: registry key -> model handle
    tokenizers,    \* ModelManager.tokenizers: registry key -> tokenizer
    nextGen,       \* number of loads that produced an object so far
    ollamaUp,      \* the local runtime answers its API
    ollamaModels,  \* the names in the local runtime's listing
    adapterDirs,   \* what is at each path under the adapters root
    now,           \* wall clock, seconds
    cache,         \* the key-value store: key -> value and expiry time
    nextReq,       \* number of /generate requests received so far
    sent,          \* request number -> response given to the caller
    pending,       \* background tasks added and not yet run
    ledger,        \* rows of request_logs
    training_tasks,\* rows of training_tasks: task id -> row
    runners,       \* task id -> where the job's background task stands
    nextTask,      \* number of POST /train requests received so far
    calls,         \* the load_model calls of a race and where each stands
    last           \* the operation that made the current state

routerVars == <<models, tokenizers, nextGen, ollamaUp, ollamaModels, adapterDirs>>
serviceVars == <<now, cache, nextReq, sent, pending, ledger>>
trainVars == <<training_tasks, runners, nextTask>>

(***************************************************************************)
(* Bounds                                                                  *)
(***************************************************************************)
\* number of successful loads after which no further load is started
MaxLoads == 3

\* number of /generate requests after which no further one is received
MaxRequests == 2

\* number of background tasks that can wait while a further request is taken
MaxPending == 1

\* number of clock ticks after which time stands still
MaxTicks == 2

\* longest decoded text of the stop-sequence specification
MaxTextLen == 3

\* number of POST /train requests after which no further one is received
MaxJobs == 2

\* number of load_model calls in flight at once in the race specification
MaxCalls == 2

(***************************************************************************)
(* Names                                                                   *)
(***************************************************************************)
\* model names a request can carry: two plain names, one the tail of the
\* other, and one with a path separator (the hub's "organisation/model" form)
ModelNames == { <<"a">>, <<"b", "a">>, <<"o", "/", "c">> }

\* names for which the hub has a checkpoint
HubCheckpoints == { <<"a">>, <<"o", "/", "c">> }

\* config.MODELS_DIR / "llm"
LlmDir == <<"/", "a", "p", "p", "/", "m", "o", "d", "e", "l", "s", "/", "l", "l", "m">>

\* config.MODELS_DIR / "llm" / model_name, as str(); the names of ModelNames
\* are relative and have no empty component, so joining is concatenation
peft_path(model_name) == LlmDir \o <<"/">> \o model_name

RECURSIVE RStripSlash(_)
RStripSlash(s) ==
    IF Len(s) > 1 /\ s[Len(s)] = "/"
    THEN RStripSlash(SubSeq(s, 1, Len(s) - 1))
    ELSE s

LastSlash(s) ==
    LET I == { i \in 1..Len(s) : s[i] = "/" }
    IN  IF I = {} THEN 0 ELSE CHOOSE i \in I : \A j \in I : j <= i

\* Path(model_path).name: the final component of the path
PathName(model_path) ==
    LET p == RStripSlash(model_path)
    IN  SubSeq(p, LastSlash(p) + 1, Len(p))

AdapterPaths == { peft_path(n) : n \in ModelNames }

\* keys the registry can get: the requested names and the names the adapter
\* loader derives from the path
RegistryKeys == ModelNames \cup { PathName(p) : p \in AdapterPaths }

\* state of a path under the adapters root: nothing there, a directory
\* without adapter_config.json, a directory with it
DirStates == { "absent", "bare", "adapter" }

(***************************************************************************)
(* Handles                                                                 *)
(***************************************************************************)
NoEntry == [kind |-> "none", gen |-> 0]

\* the value "ollama" that load_model returns for a local-runtime model
OllamaTag == [kind |-> "ollama", gen |-> 0]

\* a model or tokenizer object made by load number g
Loaded(kind, g) == [kind |-> kind, gen |-> g]

NoError == [type |-> "none", status_code |-> 0, detail |-> <<>>]

\* HTTPException(status_code=500, detail=f"{prefix}: {e}"); e is the text of
\* the cause, a sequence of its parts
HTTPException(code, prefix, e) ==
    [type |-> "HTTPException", status_code |-> code, detail |-> <<prefix>> \o e]

\* str(e) of an HTTPException: "500: " and the detail
str_error(error) ==
    <<IF error.status_code = 500 THEN "500" ELSE "status">> \o error.detail

(***************************************************************************)
(* ModelManager: the registry and the three backends                       *)
(***************************************************************************)
\* the listing entries are read under a key they do not have: the lookup
\* raises and the except branch answers False for every name
is_ollama_model_wrong_key(model_name) ==
    FALSE

\* ollama_client.list() answers and the listing has the name; a failing
\* listing call counts as "not an Ollama model"
is_ollama_model(model_name) ==
    ollamaUp /\ model_name \in ollamaModels

\* AutoTokenizer/AutoModelForCausalLM.from_pretrained for a hub name: the
\* registry is written only after both loads returned; ok is whether the
\* download and load go through when the checkpoint exists
load_hf_model(model_name, ok) ==
    IF model_name \in HubCheckpoints /\ ok
    THEN [raised |-> FALSE, cause |-> "none",
          ret |-> Loaded("hf", nextGen + 1),
          models |-> [models EXCEPT ![model_name] = Loaded("hf", nextGen + 1)],
          tokenizers |-> [tokenizers EXCEPT ![model_name] = Loaded("hf", nextGen + 1)]]
    ELSE [raised |-> TRUE,
          cause |-> IF model_name \in HubCheckpoints THEN "load_error" ELSE "hub_not_found",
          ret |-> NoEntry, models |-> models, tokenizers |-> tokenizers]

\* PeftConfig.from_pretrained needs adapter_config.json in the directory;
\* the registry key is Path(model_path).name
load_peft_model(model_path, ok) ==
    IF adapterDirs[model_path] = "adapter" /\ ok
    THEN LET model_name == PathName(model_path)
         IN  [raised |-> FALSE, cause |-> "none",
              ret |-> Loaded("peft", nextGen + 1),
              models |-> [models EXCEPT ![model_name] = Loaded("peft", nextGen + 1)],
              tokenizers |-> [tokenizers EXCEPT ![model_name] = Loaded("peft", nextGen + 1)]]
    ELSE [raised |-> TRUE,
          cause |-> IF adapterDirs[model_path] = "adapter"
                    THEN "load_error" ELSE "no_adapter_config",
          ret |-> NoEntry, models |-> models, tokenizers |-> tokenizers]

\* the directory test of load_model: peft_path.exists()
peft_path_exists(model_name) ==
    adapterDirs[peft_path(model_name)] # "absent"

\* load_model: the outcome of one call.  loads is the set of loaders that
\* were entered, error the exception that leaves the method
load_model(model_name, force_reload, ok) ==
    IF models[model_name] # NoEntry /\ ~force_reload
    THEN [ret |-> models[model_name], error |-> NoError, cause |-> "none",
          loads |-> {}, models |-> models, tokenizers |-> tokenizers]
    ELSE IF is_ollama_model(model_name)
    THEN [ret |-> OllamaTag, error |-> NoError, cause |-> "none",
          loads |-> {}, models |-> models, tokenizers |-> tokenizers]
    ELSE LET branch == IF peft_path_exists(model_name) THEN "peft" ELSE "hf"
             r == IF branch = "peft"
                  THEN load_peft_model(peft_path(model_name), ok)
                  ELSE load_hf_model(model_name, ok)
         IN  [ret |-> r.ret,
              error |-> IF r.raised
                        THEN HTTPException(500, "Failed to load model", <<r.cause>>)
                        ELSE NoError,
              cause |-> r.cause,
              loads |-> {branch}, models |-> r.models, tokenizers |-> r.tokenizers]

(***************************************************************************)
(* Strings: stop sequences, strip, hash                                    *)
(***************************************************************************)
\* sep occurs in s at position i
OccursAt(s, sep, i) ==
    /\ i + Len(sep) - 1 <= Len(s)
    /\ SubSeq(s, i, i + Len(sep) - 1) = sep

\* Python's "sep in s"; the empty string is in every string
Contains(s, sep) == \E i \in 1..(Len(s) + 1) : OccursAt(s, sep, i)

\* left-to-right scan for sep from position i; 0 when there is none
RECURSIVE Find(_, _, _)
Find(s, sep, i) ==
    IF i + Len(sep) - 1 > Len(s) THEN 0
    ELSE IF OccursAt(s, sep, i) THEN i
    ELSE Find(s, sep, i + 1)

\* str.split(sep) for a non-empty sep: the pieces between the occurrences
RECURSIVE split(_, _)
split(s, sep) ==
    LET i == Find(s, sep, 1)
    IN  IF i = 0 THEN <<s>>
        ELSE <<SubSeq(s, 1, i - 1)>> \o split(SubSeq(s, i + Len(sep), Len(s)), sep)

Whitespace == { " ", "\n", "\t" }

RECURSIVE lstrip(_)
lstrip(s) ==
    IF Len(s) > 0 /\ s[1] \in Whitespace THEN lstrip(Tail(s)) ELSE s

RECURSIVE rstrip(_)
rstrip(s) ==
    IF Len(s) > 0 /\ s[Len(s)] \in Whitespace
    THEN rstrip(SubSeq(s, 1, Len(s) - 1))
    ELSE s

\* str.strip()
strip(s) == lstrip(rstrip(s))

\* the loop over request.stop_sequences in generate_hf from position i:
\* the first sequence of the list that is in the text cuts it, and the loop
\* ends; split("") raises ValueError
RECURSIVE stop_loop(_, _, _)
stop_loop(generated_text, stop_sequences, i) ==
    IF i > Len(stop_sequences)
    THEN [raised |-> FALSE, text |-> generated_text]
    ELSE IF Contains(generated_text, stop_sequences[i])
    THEN IF stop_sequences[i] = <<>>
         THEN [raised |-> TRUE, text |-> generated_text]
         ELSE [raised |-> FALSE, text |-> split(generated_text, stop_sequences[i])[1]]
    ELSE stop_loop(generated_text, stop_sequences, i + 1)

\* the list is walked from its last sequence to its first
apply_stop_sequences_reversed(generated_text, stop_sequences) ==
    IF stop_sequences = <<>>
    THEN [raised |-> FALSE, text |-> generated_text]
    ELSE stop_loop(generated_text,
                   [k \in 1..Len(stop_sequences) |->
                       stop_sequences[Len(stop_sequences) + 1 - k]], 1)

\* "if request.stop_sequences: for ...": None and the empty list skip the loop
apply_stop_sequences(generated_text, stop_sequences) ==
    IF stop_sequences = <<>>
    THEN [raised |-> FALSE, text |-> generated_text]
    ELSE stop_loop(generated_text, stop_sequences, 1)

\* only trailing whitespace removed
response_text_rstrip(generated_text) == rstrip(generated_text)

\* the text generate_hf puts in its response: text=generated_text.strip()
response_text(generated_text) == strip(generated_text)

\* character codes
Ord(c) ==
    CASE c = "/" -> 47
      [] c = "a" -> 97
      [] c = "b" -> 98
      [] c = "c" -> 99
      [] c = "o" -> 111
      [] c = "x" -> 120
      [] OTHER -> 63

HashBase == 31
HashMod == 65521

\* hash(str): a value computed from the characters of the string alone
RECURSIVE HashFrom(_, _)
HashFrom(h, s) ==
    IF s = <<>> THEN h
    ELSE HashFrom((h * HashBase + Ord(Head(s))) % HashMod, Tail(s))

hash(s) == HashFrom(7, s)

(***************************************************************************)
(* Requests, responses and the response cache                              *)
(***************************************************************************)
\* Config.MAX_TOKENS
MAX_TOKENS == 512

\* the TTL given to setex, seconds
CacheTTL == 300

\* the clock advances half a TTL at a time
TickStep == CacheTTL \div 2

Prompts == { <<"x">>, <<"x", "b">> }

\* f"generate:{hash(request.prompt + request.model)}"
cache_key(prompt, model) == hash(prompt \o model)

CacheKeys == { cache_key(p, m) : p \in Prompts, m \in ModelNames }

NoResult == [text |-> <<>>, tokens_used |-> -1, processing_time_ms |-> -1,
             model_name |-> <<>>, request_id |-> 0]

GenerateResponse(text, tokens_used, processing_time_ms, model_name, request_id) ==
    [text |-> text, tokens_used |-> tokens_used,
     processing_time_ms |-> processing_time_ms,
     model_name |-> model_name, request_id |-> request_id]

\* result.json(): the five fields in declaration order
json(result) ==
    <<result.text, result.tokens_used, result.processing_time_ms,
      result.model_name, result.request_id>>

\* GenerateResponse.parse_raw(cached_result)
parse_raw(raw) == GenerateResponse(raw[1], raw[2], raw[3], raw[4], raw[5])

EmptySlot == [val |-> <<>>, exp |-> 0]

\* an entry is still returned in the second in which it expires
redis_get_inclusive(key) ==
    IF cache[key] # EmptySlot /\ now <= cache[key].exp
    THEN cache[key].val
    ELSE <<>>

\* redis get: the value of a key that was set and has not expired, else
\* nothing (the empty value)
redis_get(key) ==
    IF cache[key] # EmptySlot /\ now < cache[key].exp
    THEN cache[key].val
    ELSE <<>>

\* the entry is stored with half the TTL asked for
redis_setex_half_ttl(key, ttl, value) ==
    [cache EXCEPT ![key] = [val |-> value, exp |-> now + ttl \div 2]]

\* redis setex(key, ttl, value): overwrite, expiring ttl seconds from now
redis_setex(key, ttl, value) ==
    [cache EXCEPT ![key] = [val |-> value, exp |-> now + ttl]]

\* the request model without the ceiling on max_tokens
validate_no_ceiling(request) ==
    /\ request.temperature >= 0 /\ request.temperature <= 20
    /\ request.top_p >= 0 /\ request.top_p <= 10

\* the field constraints of GenerateRequest (tenths for the two floats)
validate(request) ==
    /\ request.max_tokens <= MAX_TOKENS
    /\ request.temperature >= 0 /\ request.temperature <= 20
    /\ request.top_p >= 0 /\ request.top_p <= 10

\* generate_ollama: ollama_client.generate; o.genOk is whether the runtime
\* call goes through, o.text the text it makes, o.tokens its eval_count
\* (0 when unreported)
generate_ollama(request, request_id, o) ==
    IF ollamaUp /\ request.model \in ollamaModels /\ o.genOk
    THEN [raised |-> FALSE, cause |-> "none",
          result |-> GenerateResponse(o.text, o.tokens, o.ms,
                                      request.model, request_id)]
    ELSE [raised |-> TRUE, cause |-> "runtime_error", result |-> NoResult]

\* generate_hf: the tokenizer is looked up under request.model (KeyError when
\* absent); o.genOk is whether tokenising, sampling and decoding go through
generate_hf(request, request_id, model, toks, o) ==
    IF toks[request.model] = NoEntry
    THEN [raised |-> TRUE, cause |-> "KeyError", result |-> NoResult]
    ELSE IF ~o.genOk
    THEN [raised |-> TRUE, cause |-> "runtime_error", result |-> NoResult]
    ELSE LET cut == apply_stop_sequences(o.text, request.stop_sequences)
         IN  IF cut.raised
             THEN [raised |-> TRUE, cause |-> "ValueError", result |-> NoResult]
             ELSE [raised |-> FALSE, cause |-> "none",
                   result |-> GenerateResponse(response_text(cut.text), o.tokens,
                                               o.ms, request.model, request_id)]

\* ModelManager.generate_text: the outcome of one call.  o.getOk and o.setOk
\* are whether the store answers the get and the setex, o.loadOk whether a
\* load goes through.  Every exception leaves as HTTPException 500
\* "Generation failed".
generate_text(request, request_id, o) ==
    LET key == cache_key(request.prompt, request.model)
        untouched == [models |-> models, tokenizers |-> tokenizers, cache |-> cache]
        failed(cause, resolved, dispatched, loads, reg) ==
            [result |-> NoResult,
             error |-> HTTPException(500, "Generation failed", cause),
             looked |-> TRUE, resolved |-> resolved, dispatched |-> dispatched,
             loads |-> loads,
             models |-> reg.models, tokenizers |-> reg.tokenizers, cache |-> cache]
    IN  IF ~o.getOk
        THEN failed(<<"cache_error">>, FALSE, "none", {}, untouched)
        ELSE IF redis_get(key) # <<>>
        THEN [result |-> parse_raw(redis_get(key)), error |-> NoError,
              looked |-> TRUE, resolved |-> FALSE, dispatched |-> "none",
              loads |-> {},
              models |-> models, tokenizers |-> tokenizers, cache |-> cache]
        ELSE LET m == load_model(request.model, FALSE, o.loadOk)
             IN  IF m.error # NoError
                 THEN failed(str_error(m.error), TRUE, "none", m.loads, m)
                 ELSE LET g == IF m.ret = OllamaTag
                               THEN generate_ollama(request, request_id, o)
                               ELSE generate_hf(request, request_id, m.ret,
                                                m.tokenizers, o)
                          d == IF m.ret = OllamaTag THEN "ollama" ELSE "hf"
                      IN  IF g.raised
                          THEN failed(<<g.cause>>, TRUE, d, m.loads, m)
                          ELSE IF ~o.setOk
                          THEN failed(<<"cache_error">>, TRUE, d, m.loads, m)
                          ELSE [result |-> g.result, error |-> NoError,
                                looked |-> TRUE, resolved |-> TRUE,
                                dispatched |-> d, loads |-> m.loads,
                                models |-> m.models, tokenizers |-> m.tokenizers,
                                cache |-> redis_setex(key, CacheTTL, json(g.result))]

\* the row log_request builds from its arguments
RequestLog(model_name, prompt_length, tokens_generated, processing_time_ms, success, error_message) ==
    [model_name |-> model_name, prompt_length |-> prompt_length,
     tokens_generated |-> tokens_generated,
     processing_time_ms |-> processing_time_ms,
     success |-> success, error_message |-> error_message]

\* the failure branch logs with the arguments of the success branch
log_task_always_success(request, g, elapsed) ==
    RequestLog(request.model, Len(request.prompt), g.result.tokens_used,
               g.result.processing_time_ms, TRUE, <<>>)

\* the background task the /generate endpoint adds for a call: from the
\* result on success, from the exception on failure
log_task(request, g, elapsed) ==
    IF g.error = NoError
    THEN RequestLog(request.model, Len(request.prompt), g.result.tokens_used,
                    g.result.processing_time_ms, TRUE, <<>>)
    ELSE RequestLog(request.model, Len(request.prompt), 0, elapsed,
                    FALSE, str_error(g.error))

\* every outcome is answered with status 200
endpoint_response_always_200(g) ==
    [status |-> 200, body |-> g.result, detail |-> <<>>]

\* the response of the /generate endpoint: the result, or the exception
\* re-raised to the framework
endpoint_response(g) ==
    IF g.error = NoError
    THEN [status |-> 200, body |-> g.result, detail |-> <<>>]
    ELSE [status |-> g.error.status_code, body |-> NoResult,
          detail |-> g.error.detail]

\* log_request without its try/except: the session's exception leaves it
log_request_unguarded(rows, entry, dbOk) ==
    IF dbOk
    THEN [ledger |-> Append(rows, entry), raised |-> FALSE, reported |-> FALSE]
    ELSE [ledger |-> rows, raised |-> TRUE, reported |-> FALSE]

\* log_request: add and commit the row; an exception of the session is
\* caught and reported to the service's own log
log_request(rows, entry, dbOk) ==
    IF dbOk
    THEN [ledger |-> Append(rows, entry), raised |-> FALSE, reported |-> FALSE]
    ELSE [ledger |-> rows, raised |-> FALSE, reported |-> TRUE]

(***************************************************************************)
(* Actions of the router                                                   *)
(***************************************************************************)
NoOp == [op |-> "init"]

\* one call of load_model(model_name, force_reload)
Resolve(model_name, force_reload, ok) ==
    /\ LET r == load_model(model_name, force_reload, ok)
       IN  /\ r.loads = {} \/ nextGen < MaxLoads
           /\ models' = r.models
           /\ tokenizers' = r.tokenizers
           /\ nextGen' = IF r.loads # {} /\ r.error = NoError
                         THEN nextGen + 1 ELSE nextGen
           /\ last' = [op |-> "resolve", name |-> model_name, force |-> force_reload,
                       pre |-> models[model_name],
                       ret |-> r.ret, error |-> r.error, cause |-> r.cause,
                       loads |-> r.loads]
    /\ UNCHANGED <<ollamaUp, ollamaModels, adapterDirs>>
    /\ UNCHANGED serviceVars
    /\ UNCHANGED <<trainVars, calls>>

\* the local runtime gets or loses a model, or stops or starts answering
OllamaPull(model_name) ==
    /\ model_name \notin ollamaModels
    /\ ollamaModels' = ollamaModels \cup {model_name}
    /\ last' = [op |-> "env"]
    /\ UNCHANGED <<models, tokenizers, nextGen, ollamaUp, adapterDirs>>
    /\ UNCHANGED serviceVars
    /\ UNCHANGED <<trainVars, calls>>

OllamaRemove(model_name) ==
    /\ model_name \in ollamaModels
    /\ ollamaModels' = ollamaModels \ {model_name}
    /\ last' = [op |-> "env"]
    /\ UNCHANGED <<models, tokenizers, nextGen, ollamaUp, adapterDirs>>
    /\ UNCHANGED serviceVars
    /\ UNCHANGED <<trainVars, calls>>

OllamaToggle ==
    /\ ollamaUp' = ~ollamaUp
    /\ last' = [op |-> "env"]
    /\ UNCHANGED <<models, tokenizers, nextGen, ollamaModels, adapterDirs>>
    /\ UNCHANGED serviceVars
    /\ UNCHANGED <<trainVars, calls>>

(***************************************************************************)
(* Actions of the service                                                  *)
(***************************************************************************)
FailPoints == { "none", "get", "load", "gen", "set" }

Request(model, prompt, max_tokens, stop_sequences) ==
    [model |-> model, prompt |-> prompt, max_tokens |-> max_tokens,
     temperature |-> 7, top_p |-> 9, stop_sequences |-> stop_sequences]

\* the requests of the endpoint specification: a hub checkpoint at the token
\* ceiling, a name no backend has, and a request over the ceiling
Requests ==
    { Request(<<"a">>, <<"x">>, 512, << <<"S">> >>),
      Request(<<"b", "a">>, <<"x">>, 150, << <<"S">> >>),
      Request(<<"b", "a">>, <<"x">>, 600, << <<"S">> >>) }

\* the requests of the cache specification: a hub checkpoint, a name of the
\* local runtime, an adapter directory, and a second prompt for the checkpoint
CacheRequests ==
    { Request(<<"a">>, <<"x">>, 150, << <<"S">> >>),
      Request(<<"b", "a">>, <<"x">>, 150, << <<"S">> >>),
      Request(<<"o", "/", "c">>, <<"x">>, 150, << <<"S">> >>),
      Request(<<"a">>, <<"x", "b">>, 150, << <<"S">> >>) }

\* what the collaborators do during one call: at most one of them fails
Outcome(fail, text, tokens) ==
    [getOk |-> fail # "get", loadOk |-> fail # "load", genOk |-> fail # "gen",
     setOk |-> fail # "set", text |-> text, tokens |-> tokens, ms |-> 12]

Outcomes == { Outcome(f, <<"h", " ", "S", "x">>, 7) : f \in FailPoints }

NoResponse == [status |-> 0, body |-> NoResult, detail |-> <<>>]
NoRequest == [model |-> <<>>, prompt |-> <<>>, max_tokens |-> 0,
              temperature |-> 0, top_p |-> 0, stop_sequences |-> <<>>]
NoCall == [request |-> NoRequest, response |-> NoResponse, wroteAt |-> -1]

\* POST /generate with a body the request model rejects: 422 from the
\* framework, the endpoint body does not run
GenerateRejected(request) ==
    /\ nextReq < MaxRequests
    /\ ~validate(request)
    /\ nextReq' = nextReq + 1
    /\ sent' = [sent EXCEPT ![nextReq + 1] =
                  [request |-> request,
                   response |-> [status |-> 422, body |-> NoResult,
                                 detail |-> <<"validation">>],
                   wroteAt |-> -1]]
    /\ last' = [op |-> "generate", id |-> nextReq + 1, request |-> request,
                valid |-> FALSE, looked |-> FALSE, resolved |-> FALSE,
                dispatched |-> "none", loads |-> {}, getOk |-> TRUE,
                error |-> NoError, tasks |-> <<>>]
    /\ UNCHANGED <<now, cache, pending, ledger>>
    /\ UNCHANGED routerVars
    /\ UNCHANGED <<trainVars, calls>>

\* POST /generate with a valid body: generate_text, then one background task
\* for the request log, then the result or the re-raised exception
Generate(request, o) ==
    /\ nextReq < MaxRequests
    /\ Len(pending) < MaxPending
    /\ validate(request)
    /\ LET id == nextReq + 1
           g == generate_text(request, id, o)
           task == log_task(request, g, o.ms)
       IN  /\ g.models = models \/ nextGen < MaxLoads
           /\ nextReq' = id
           /\ models' = g.models
           /\ tokenizers' = g.tokenizers
           /\ nextGen' = IF g.loads # {} /\ g.models # models
                         THEN nextGen + 1 ELSE nextGen
           /\ cache' = g.cache
           /\ pending' = Append(pending, [id |-> id, entry |-> task])
           /\ sent' = [sent EXCEPT ![id] =
                         [request |-> request,
                          response |-> endpoint_response(g),
                          wroteAt |-> IF g.cache # cache THEN now ELSE -1]]
           /\ last' = [op |-> "generate", id |-> id, request |-> request,
                       valid |-> TRUE, looked |-> g.looked, resolved |-> g.resolved,
                       dispatched |-> g.dispatched, loads |-> g.loads,
                       getOk |-> o.getOk, error |-> g.error,
                       tasks |-> << [id |-> id, entry |-> task] >>]
    /\ UNCHANGED <<now, ledger, ollamaUp, ollamaModels, adapterDirs>>
    /\ UNCHANGED <<trainVars, calls>>

\* the framework runs the oldest background task: log_request
RunBackground(dbOk) ==
    /\ pending # <<>>
    /\ LET task == Head(pending)
           r == log_request(ledger, task.entry, dbOk)
       IN  /\ ledger' = r.ledger
           /\ last' = [op |-> "log", id |-> task.id, dbOk |-> dbOk,
                       raised |-> r.raised, reported |-> r.reported]
    /\ pending' = Tail(pending)
    /\ UNCHANGED <<now, cache, nextReq, sent>>
    /\ UNCHANGED routerVars
    /\ UNCHANGED <<trainVars, calls>>

\* the task was added to a call that ended by raising: the framework builds
\* the error response itself and may leave the tasks of the call unrun
DiscardBackground ==
    /\ pending # <<>>
    /\ sent[Head(pending).id].response.status # 200
    /\ pending' = Tail(pending)
    /\ last' = [op |-> "discard", id |-> Head(pending).id]
    /\ UNCHANGED <<now, cache, nextReq, sent, ledger>>
    /\ UNCHANGED routerVars
    /\ UNCHANGED <<trainVars, calls>>

\* time passes; the log task reads no clock, so it is run first
Tick ==
    /\ pending = <<>>
    /\ now + TickStep <= MaxTicks * TickStep
    /\ now' = now + TickStep
    /\ last' = [op |-> "env"]
    /\ UNCHANGED <<cache, nextReq, sent, pending, ledger>>
    /\ UNCHANGED routerVars
    /\ UNCHANGED <<trainVars, calls>>

(***************************************************************************)
(* Training jobs: POST /train, run_training, GET /training/{id}, and the   *)
(* status panel of the dashboard (src/nocode_ui/main.py)                   *)
(***************************************************************************)
TaskIds == 1..MaxJobs

NoTask == [status |-> "none", progress |-> 0, output_name |-> "null",
           started_at |-> "null", completed_at |-> "null", error_message |-> "null"]

\* TrainingTask(id=..., output_name=...) with the column defaults
TrainingTask(output_name) ==
    [status |-> "pending", progress |-> 0, output_name |-> output_name,
     started_at |-> "null", completed_at |-> "null", error_message |-> "null"]

\* start_training: add and commit the row, then schedule run_training; when
\* the commit raises, the request ends in a 500 and nothing is scheduled
start_training(task_id, output_name, dbOk) ==
    IF dbOk
    THEN [rows |-> [training_tasks EXCEPT ![task_id] = TrainingTask(output_name)],
          scheduled |-> TRUE,
          response |-> [code |-> 200, task_id |-> task_id, status |-> "started"]]
    ELSE [rows |-> training_tasks, scheduled |-> FALSE,
          response |-> [code |-> 500, task_id |-> 0, status |-> "error"]]

\* run_training after its sleep: the try block marks the row completed; when
\* a ledger operation in it raises (tryOk false) the except block queries
\* again and marks the row failed; when that raises too (exceptOk false) the
\* exception leaves the function and the row stays as it was
run_training(task_id, tryOk, exceptOk) ==
    IF tryOk
    THEN [rows |-> [training_tasks EXCEPT ![task_id].status = "completed",
                                          ![task_id].completed_at = "set",
                                          ![task_id].progress = 100],
          escaped |-> FALSE]
    ELSE IF exceptOk
    THEN [rows |-> [training_tasks EXCEPT ![task_id].status = "failed",
                                          ![task_id].error_message = "set"],
          escaped |-> FALSE]
    ELSE [rows |-> training_tasks, escaped |-> TRUE]

\* the row is answered as "started", the status POST /train reports
get_training_status_started(task_id, dbOk) ==
    IF ~dbOk
    THEN [code |-> 500, body |-> [detail |-> "error"]]
    ELSE IF training_tasks[task_id] = NoTask
    THEN [code |-> 404, body |-> [detail |-> "Training task not found"]]
    ELSE LET task == training_tasks[task_id]
         IN  [code |-> 200,
              body |-> [task_id |-> task_id,
                        status |-> IF task.status = "pending" THEN "started"
                                   ELSE task.status,
                        progress |-> task.progress,
                        created_at |-> "set", started_at |-> task.started_at,
                        completed_at |-> task.completed_at,
                        error_message |-> task.error_message]]

\* get_training_status: 404 when the query finds no row, else the fields of
\* the row; a failing query is a 500
get_training_status(task_id, dbOk) ==
    IF ~dbOk
    THEN [code |-> 500, body |-> [detail |-> "error"]]
    ELSE IF training_tasks[task_id] = NoTask
    THEN [code |-> 404, body |-> [detail |-> "Training task not found"]]
    ELSE LET task == training_tasks[task_id]
         IN  [code |-> 200,
              body |-> [task_id |-> task_id, status |-> task.status,
                        progress |-> task.progress,
                        created_at |-> "set", started_at |-> task.started_at,
                        completed_at |-> task.completed_at,
                        error_message |-> task.error_message]]

\* the fields the status panel reads from a response with this status:
\* status and progress always, progress again while running, output_name
\* when the job is completed and the test button is pressed, error_message
\* when the job failed
panel_reads(status_value, clicked) ==
    {"status", "progress"} \cup
    (IF status_value = "completed" /\ clicked THEN {"output_name"} ELSE {}) \cup
    (IF status_value = "failed" THEN {"error_message"} ELSE {})

OutputNames == { "m" }

\* POST /train
StartTraining(output_name, dbOk) ==
    /\ nextTask < MaxJobs
    /\ LET task_id == nextTask + 1
           r == start_training(task_id, output_name, dbOk)
       IN  /\ nextTask' = task_id
           /\ training_tasks' = r.rows
           /\ runners' = IF r.scheduled
                         THEN [runners EXCEPT ![task_id] = "queued"]
                         ELSE runners
           /\ last' = [op |-> "train", id |-> task_id, code |-> r.response.code]
    /\ UNCHANGED <<routerVars, serviceVars, calls>>

\* run_training up to its sleep
TrainSleep(task_id) ==
    /\ runners[task_id] = "queued"
    /\ runners' = [runners EXCEPT ![task_id] = "sleeping"]
    /\ last' = [op |-> "sleep", id |-> task_id]
    /\ UNCHANGED <<training_tasks, nextTask>>
    /\ UNCHANGED <<routerVars, serviceVars, calls>>

\* run_training from the end of its sleep to its return
TrainUpdate(task_id, tryOk, exceptOk) ==
    /\ runners[task_id] = "sleeping"
    /\ LET r == run_training(task_id, tryOk, exceptOk)
       IN  /\ training_tasks' = r.rows
           /\ last' = [op |-> "update", id |-> task_id, escaped |-> r.escaped]
    /\ runners' = [runners EXCEPT ![task_id] = "done"]
    /\ UNCHANGED nextTask
    /\ UNCHANGED <<routerVars, serviceVars, calls>>

\* GET /training/{task_id}
GetTrainingStatus(task_id, dbOk) ==
    /\ LET r == get_training_status(task_id, dbOk)
       IN  last' = [op |-> "status", id |-> task_id, dbOk |-> dbOk,
                    code |-> r.code,
                    status |-> IF r.code = 200 THEN r.body.status ELSE "none",
                    fields |-> DOMAIN r.body]
    /\ UNCHANGED trainVars
    /\ UNCHANGED <<routerVars, serviceVars, calls>>

\* the status panel of the dashboard for the task id it got from POST /train;
\* clicked is whether the user presses the test button the panel shows for a
\* completed job
StatusPanel(task_id, clicked, dbOk) ==
    /\ runners[task_id] # "none"
    /\ LET r == get_training_status(task_id, dbOk)
       IN  last' = IF r.code = 200
                   THEN [op |-> "panel", id |-> task_id, shown |-> TRUE,
                         status |-> r.body.status, clicked |-> clicked,
                         fields |-> DOMAIN r.body,
                         reads |-> panel_reads(r.body.status, clicked)]
                   ELSE [op |-> "panel", id |-> task_id, shown |-> FALSE,
                         status |-> "none", clicked |-> clicked,
                         fields |-> {}, reads |-> {}]
    /\ UNCHANGED trainVars
    /\ UNCHANGED <<routerVars, serviceVars, calls>>

(***************************************************************************)
(* Concurrent load_model calls for one model name.  load_model and the     *)
(* loaders are coroutines that await nothing but each other, so a call     *)
(* that has started runs to its end before the event loop starts another:  *)
(* the interleavings of the calls are the orders in which they start.      *)
(***************************************************************************)
\* a request that needs load_model(model_name, force_reload) arrives while
\* earlier ones for the same name are still waiting for the event loop
RaceCall(model_name, force_reload) ==
    /\ Len(calls) < MaxCalls
    /\ \A k \in 1..Len(calls) : calls[k].name = model_name
    /\ calls' = Append(calls, [name |-> model_name, force |-> force_reload,
                               state |-> "waiting", loaded |-> FALSE,
                               ret |-> NoEntry])
    /\ last' = [op |-> "race_call", name |-> model_name]
    /\ UNCHANGED <<routerVars, serviceVars, trainVars>>

\* the event loop runs the waiting call k: one load_model from start to end
RaceRun(k, ok) ==
    /\ k \in 1..Len(calls)
    /\ calls[k].state = "waiting"
    /\ LET r == load_model(calls[k].name, calls[k].force, ok)
       IN  /\ r.loads = {} \/ nextGen < MaxLoads
           /\ models' = r.models
           /\ tokenizers' = r.tokenizers
           /\ nextGen' = IF r.loads # {} /\ r.error = NoError
                         THEN nextGen + 1 ELSE nextGen
           /\ calls' = [calls EXCEPT ![k].state = "returned",
                                     ![k].loaded = (r.loads # {} /\ r.error = NoError),
                                     ![k].ret = r.ret]
           /\ last' = [op |-> "race_run", name |-> calls[k].name]
    /\ UNCHANGED <<ollamaUp, ollamaModels, adapterDirs>>
    /\ UNCHANGED <<serviceVars, trainVars>>

vars == <<models, tokenizers, nextGen, ollamaUp, ollamaModels, adapterDirs,
          now, cache, nextReq, sent, pending, ledger,
          training_tasks, runners, nextTask, calls, last>>

\* the service part before the first request
InitService ==
    /\ now = 0
    /\ cache = [k \in CacheKeys |-> EmptySlot]
    /\ nextReq = 0
    /\ sent = [i \in 1..MaxRequests |-> NoCall]
    /\ pending = <<>>
    /\ ledger = <<>>
    /\ training_tasks = [i \in TaskIds |-> NoTask]
    /\ runners = [i \in TaskIds |-> "none"]
    /\ nextTask = 0
    /\ calls = <<>>

InitRouter ==
    /\ models = [k \in RegistryKeys |-> NoEntry]
    /\ tokenizers = [k \in RegistryKeys |-> NoEntry]
    /\ nextGen = 0
    /\ ollamaUp = TRUE
    /\ ollamaModels \in SUBSET ModelNames
    /\ adapterDirs \in [AdapterPaths -> DirStates]
    /\ InitService
    /\ last = NoOp

NextRouter ==
    \/ \E n \in ModelNames, f \in BOOLEAN, ok \in BOOLEAN : Resolve(n, f, ok)
    \/ \E n \in ModelNames : OllamaPull(n)
    \/ \E n \in ModelNames : OllamaRemove(n)
    \/ OllamaToggle

SpecRouter == InitRouter /\ [][NextRouter]_vars

\* the /generate endpoint with its request log: "a" is a hub checkpoint, no
\* other name is known to any backend
Init ==
    /\ models = [k \in RegistryKeys |-> NoEntry]
    /\ tokenizers = [k \in RegistryKeys |-> NoEntry]
    /\ nextGen = 0
    /\ ollamaUp = TRUE
    /\ ollamaModels = {}
    /\ adapterDirs = [p \in AdapterPaths |-> "absent"]
    /\ InitService
    /\ last = NoOp

Next ==
    \/ \E r \in Requests : GenerateRejected(r)
    \/ \E r \in Requests, o \in Outcomes : Generate(r, o)
    \/ \E dbOk \in BOOLEAN : RunBackground(dbOk)
    \/ DiscardBackground

Spec == Init /\ [][Next]_vars

\* generation with the response cache over time: "a" is a hub checkpoint,
\* "ba" a model of the local runtime, "o/c" an adapter directory; the request
\* log is written without failures
InitCache ==
    /\ models = [k \in RegistryKeys |-> NoEntry]
    /\ tokenizers = [k \in RegistryKeys |-> NoEntry]
    /\ nextGen = 0
    /\ ollamaUp = TRUE
    /\ ollamaModels = { <<"b", "a">> }
    /\ adapterDirs = [p \in AdapterPaths |->
                        IF p = peft_path(<<"o", "/", "c">>) THEN "adapter" ELSE "absent"]
    /\ InitService
    /\ last = NoOp

NextCache ==
    \/ \E r \in CacheRequests, o \in Outcomes : Generate(r, o)
    \/ RunBackground(TRUE)
    \/ Tick

SpecCache == InitCache /\ [][NextCache]_vars

\* training jobs, their status endpoint and the dashboard's panel
InitTrain ==
    /\ models = [k \in RegistryKeys |-> NoEntry]
    /\ tokenizers = [k \in RegistryKeys |-> NoEntry]
    /\ nextGen = 0
    /\ ollamaUp = TRUE
    /\ ollamaModels = {}
    /\ adapterDirs = [p \in AdapterPaths |-> "absent"]
    /\ InitService
    /\ last = NoOp

NextTrain ==
    \/ \E n \in OutputNames, dbOk \in BOOLEAN : StartTraining(n, dbOk)
    \/ \E i \in TaskIds : TrainSleep(i)
    \/ \E i \in TaskIds, tryOk \in BOOLEAN, exceptOk \in BOOLEAN :
          TrainUpdate(i, tryOk, exceptOk)
    \/ \E i \in TaskIds, dbOk \in BOOLEAN : GetTrainingStatus(i, dbOk)
    \/ \E i \in TaskIds, c \in BOOLEAN, dbOk \in BOOLEAN : StatusPanel(i, c, dbOk)

SpecTrain == InitTrain /\ [][NextTrain]_vars

\* concurrent resolves and force reloads of one name, on every layout of
\* the adapter directories
InitRace ==
    /\ models = [k \in RegistryKeys |-> NoEntry]
    /\ tokenizers = [k \in RegistryKeys |-> NoEntry]
    /\ nextGen = 0
    /\ ollamaUp = TRUE
    /\ ollamaModels = {}
    /\ adapterDirs \in [AdapterPaths -> DirStates]
    /\ InitService
    /\ last = NoOp

NextRace ==
    \/ \E n \in ModelNames, f \in BOOLEAN : RaceCall(n, f)
    \/ \E k \in 1..MaxCalls, ok \in BOOLEAN : RaceRun(k, ok)

SpecRace == InitRace /\ [][NextRace]_vars

(***************************************************************************)
(* Stop-sequence handling of generate_hf on its own                        *)
(***************************************************************************)
StopAlphabet == { "a", " ", "S" }

RECURSIVE SeqsUpTo(_, _)
SeqsUpTo(S, n) ==
    IF n = 0 THEN { <<>> }
    ELSE LET shorter == SeqsUpTo(S, n - 1)
         IN  shorter \cup { Append(q, c) : q \in shorter, c \in S }

ExampleText == <<"a", "b", "c", " ", "S", "T", "O", "P", " ", "d", "e", "f">>
ExampleStop == <<"S", "T", "O", "P">>

\* decoded texts: every text over the alphabet up to MaxTextLen, and the
\* example of the specification
DecodedTexts == SeqsUpTo(StopAlphabet, MaxTextLen) \cup { ExampleText }

\* stop sequences: the empty string, one or two characters, and "STOP"
StopSeqs == SeqsUpTo(StopAlphabet, 2) \cup { ExampleStop }

\* request.stop_sequences: None or the empty list, one or two sequences
StopSeqLists == SeqsUpTo(StopSeqs, 2)

\* the keys of the cache: one per concatenation prompt + model
CacheKeysDistinct ==
    Cardinality(CacheKeys) = Cardinality({ p \o m : p \in Prompts, m \in ModelNames })

InitStop ==
    /\ models = [k \in RegistryKeys |-> NoEntry]
    /\ tokenizers = [k \in RegistryKeys |-> NoEntry]
    /\ nextGen = 0
    /\ ollamaUp = TRUE
    /\ ollamaModels = {}
    /\ adapterDirs = [p \in AdapterPaths |-> "absent"]
    /\ InitService
    /\ \E t \in DecodedTexts, l \in StopSeqLists :
          last = [op |-> "decoded", text |-> t, stops |-> l]

\* the part of generate_hf from the decoded text to the text of the response
HfRespond ==
    /\ last.op = "decoded"
    /\ LET cut == apply_stop_sequences(last.text, last.stops)
       IN  last' = [op |-> "stop", text |-> last.text, stops |-> last.stops,
                    raised |-> cut.raised,
                    cut |-> IF cut.raised THEN <<>> ELSE cut.text,
                    returned |-> IF cut.raised THEN <<>> ELSE response_text(cut.text)]
    /\ UNCHANGED routerVars
    /\ UNCHANGED serviceVars
    /\ UNCHANGED <<trainVars, calls>>

NextStop == HfRespond

SpecStop == InitStop /\ [][NextStop]_vars

(***************************************************************************)
(* Claims about the router                                                 *)
(***************************************************************************)
IsResolve == last.op = "resolve"

\* the local runtime answers the listing call and the listing has the name
Listed(n) == ollamaUp /\ n \in ollamaModels

\* C1 (as stated): a non-forced resolve of a name that is in the local-runtime
\* listing returns the local-runtime tag and enters no loader, whatever the
\* registry holds.
C1_ListedReturnsTag ==
    (IsResolve /\ ~last.force /\ Listed(last.name))
        => (last.ret = OllamaTag /\ last.loads = {})

\* C1 (amended): a non-forced resolve of a listed name enters no loader; it
\* returns the local-runtime tag when the registry has no entry for the name,
\* and the registry entry when it has one.
C1_ListedNoLoad ==
    (IsResolve /\ ~last.force /\ Listed(last.name))
        => /\ last.loads = {}
           /\ last.pre = NoEntry => last.ret = OllamaTag
           /\ last.pre # NoEntry => last.ret = last.pre

C1_Witness ==
    /\ IsResolve /\ ~last.force /\ Listed(last.name)
    /\ last.pre = NoEntry /\ last.ret = OllamaTag
    /\ \E k \in RegistryKeys : models[k] # NoEntry

\* no backend can produce the name: not listed, no adapter directory, no
\* checkpoint on the hub
NoBackend(n) ==
    /\ ~Listed(n)
    /\ adapterDirs[peft_path(n)] = "absent"
    /\ n \notin HubCheckpoints

\* C5: a resolve fails with the error kind ModelUnavailable exactly when no
\* backend can produce the name, and with ModelLoadFailed when a backend
\* recognised the name and failed to load it.
C5_DistinctErrorKinds ==
    (IsResolve /\ last.error # NoError)
        => /\ NoBackend(last.name) <=> last.error.type = "ModelUnavailable"
           /\ ~NoBackend(last.name) <=> last.error.type = "ModelLoadFailed"

\* C6: a successful forced resolve does not return the entry the registry had,
\* leaves no such entry behind, and a following non-forced resolve of the name
\* returns the handle the forced one returned.
C6_ForceReplacesEntry ==
    (IsResolve /\ last.force /\ last.error = NoError /\ last.pre # NoEntry)
        => /\ last.ret # last.pre
           /\ models[last.name] # last.pre
           /\ load_model(last.name, FALSE, TRUE).ret = last.ret

\* C7: the adapter loader is entered only for a directory that has the
\* adapter configuration file, and a directory without it leads to the hub
\* load.
C7_AdapterNeedsConfig ==
    IsResolve
        => /\ "peft" \in last.loads => adapterDirs[peft_path(last.name)] = "adapter"
           /\ (last.loads # {} /\ adapterDirs[peft_path(last.name)] = "bare")
                  => last.loads = {"hf"}

\* C8: after a resolve that loaded through the adapter or the checkpoint
\* branch, the registry holds the returned handle and a tokenizer of the same
\* load under the requested name.
\* C8: after a resolve that loaded through the adapter or the checkpoint
\* branch, the registry holds the returned handle and a tokenizer of the same
\* load under the requested name.
C8_RegistryKeyedByRequestedName ==
    (IsResolve /\ last.error = NoError /\ last.loads # {})
        => /\ models[last.name] = last.ret
           /\ tokenizers[last.name] = last.ret

(***************************************************************************)
(* Claims about stop sequences                                             *)
(***************************************************************************)
\* the stop sequence the loop acts on: the first of the list, in request
\* order, that is in the text
Applies(text, stops, i) ==
    /\ i \in 1..Len(stops)
    /\ Contains(text, stops[i])
    /\ \A j \in 1..(i - 1) : ~Contains(text, stops[j])

\* the part of text before the first occurrence of sep (sep occurs in text)
PartBefore(text, sep) ==
    LET first == CHOOSE i \in 1..Len(text) :
                     /\ OccursAt(text, sep, i)
                     /\ \A j \in 1..(i - 1) : ~OccursAt(text, sep, j)
    IN  SubSeq(text, 1, first - 1)

\* r is t without its leading and trailing whitespace
IsStripped(r, t) ==
    \E i \in 1..(Len(t) + 1), j \in 0..Len(t) :
        /\ r = SubSeq(t, i, j)
        /\ \A k \in 1..(i - 1) : t[k] \in Whitespace
        /\ \A k \in (j + 1)..Len(t) : t[k] \in Whitespace
        /\ r # <<>> => (r[1] \notin Whitespace /\ r[Len(r)] \notin Whitespace)

\* C3 (as stated): when a stop sequence applies, the returned text is exactly
\* the part of the decoded text before its first occurrence.
C3_ReturnsPartBefore ==
    (last.op = "stop" /\ ~last.raised)
        => \A i \in 1..Len(last.stops) :
               Applies(last.text, last.stops, i)
                   => last.returned = PartBefore(last.text, last.stops[i])

\* C3 (amended): when a stop sequence applies, the returned text is the part
\* of the decoded text before its first occurrence with leading and trailing
\* whitespace removed.
C3_ReturnsStrippedPartBefore ==
    (last.op = "stop" /\ ~last.raised)
        => \A i \in 1..Len(last.stops) :
               Applies(last.text, last.stops, i)
                   => IsStripped(last.returned, PartBefore(last.text, last.stops[i]))

C3_Witness ==
    /\ last.op = "stop" /\ ~last.raised
    /\ last.text = ExampleText /\ last.stops = << ExampleStop >>
    /\ last.returned = <<"a", "b", "c">>

(***************************************************************************)
(* Claims about the service                                                *)
(***************************************************************************)
IsGenerate == last.op = "generate"

\* an earlier call i with the prompt and model of the call just made, whose
\* cache write is less than the TTL ago
RepeatsWithinTTL(i) ==
    /\ IsGenerate /\ last.valid /\ i < last.id
    /\ sent[i].request.prompt = last.request.prompt
    /\ sent[i].request.model = last.request.model
    /\ sent[i].wroteAt >= 0
    /\ now < sent[i].wroteAt + CacheTTL

\* C2: a call that repeats the prompt and model of an earlier call within the
\* TTL of that call's cache write (the store answering the lookup) returns the
\* earlier result, field for field, and neither resolves nor dispatches.
C2_CacheIdempotence ==
    \A i \in 1..MaxRequests :
        (RepeatsWithinTTL(i) /\ last.getOk)
            => /\ sent[last.id].response.status = 200
               /\ sent[last.id].response.body = sent[i].response.body
               /\ ~last.resolved
               /\ last.dispatched = "none"
               /\ last.loads = {}

C2_Witness ==
    \E i \in 1..MaxRequests :
        /\ RepeatsWithinTTL(i) /\ last.getOk
        /\ now > sent[i].wroteAt
        /\ sent[last.id].response.body.request_id = i

\* C4: a request with max_tokens over the ceiling is rejected before any
\* cache lookup, resolution or dispatch, and schedules nothing; every call
\* that looks up, resolves or dispatches has max_tokens within the ceiling.
C4_CeilingRejectedBeforeDispatch ==
    IsGenerate
        => /\ last.request.max_tokens > MAX_TOKENS
                => /\ ~last.looked /\ ~last.resolved /\ last.dispatched = "none"
                   /\ last.tasks = <<>>
                   /\ sent[last.id].response.status = 422
           /\ (last.looked \/ last.resolved \/ last.dispatched # "none")
                => last.request.max_tokens <= MAX_TOKENS

C4_Witness ==
    /\ IsGenerate /\ last.request.max_tokens = 600
    /\ sent[last.id].response.status = 422
    /\ \E i \in 1..MaxRequests :
          /\ sent[i].request.max_tokens = MAX_TOKENS
          /\ sent[i].response.status = 200

\* C9: a call that passed validation adds exactly one log task; its success
\* flag is the outcome of the call; on success it has the tokens and latency
\* of the result, on failure zero tokens and a non-empty error message, and
\* the caller gets an error response.
C9_OneLogTaskPerCall ==
    (IsGenerate /\ last.valid)
        => /\ Len(last.tasks) = 1
           /\ pending # <<>> /\ pending[Len(pending)] = last.tasks[1]
           /\ LET entry == last.tasks[1].entry
                  response == sent[last.id].response
              IN  /\ entry.success <=> response.status = 200
                  /\ entry.model_name = last.request.model
                  /\ entry.prompt_length = Len(last.request.prompt)
                  /\ entry.success
                       => /\ entry.tokens_generated = response.body.tokens_used
                          /\ entry.processing_time_ms = response.body.processing_time_ms
                  /\ ~entry.success
                       => /\ entry.tokens_generated = 0
                          /\ entry.error_message # <<>>
                          /\ response.status = 500
                          /\ response.body = NoResult

C9_Witness ==
    /\ IsGenerate /\ last.valid
    /\ last.request.model = <<"b", "a">>
    /\ sent[last.id].response.status = 500
    /\ ~last.tasks[1].entry.success
    /\ last.tasks[1].entry.error_message =
           <<"500", "Generation failed", "500", "Failed to load model", "hub_not_found">>

\* C10: running the log task changes no response, whether the ledger write
\* goes through or fails, and lets no exception out; a log task waits only
\* for a call whose response has been determined.
C10_LogFailureKeepsResponse ==
    /\ [](\A k \in 1..Len(pending) : sent[pending[k].id].response # NoResponse)
    /\ [][last'.op = "log" => (sent' = sent /\ ~last'.raised)]_vars

C10_Witness ==
    /\ last.op = "log" /\ ~last.dbOk /\ last.reported
    /\ sent[last.id].response.status = 200
    /\ ledger = <<>>
\* the key generate_text computes for the call just made
LastKey == cache_key(last.request.prompt, last.request.model)

\* call i is the latest earlier call that wrote the key of the call just
\* made, and its write is at least 300 seconds ago
WroteKeyLongAgo(i) ==
    /\ IsGenerate /\ last.valid /\ i < last.id
    /\ cache_key(sent[i].request.prompt, sent[i].request.model) = LastKey
    /\ sent[i].wroteAt >= 0
    /\ now >= sent[i].wroteAt + 300
    /\ \A j \in (i + 1)..(last.id - 1) :
          cache_key(sent[j].request.prompt, sent[j].request.model) = LastKey
              => sent[j].wroteAt < 0

\* C13: a call that misses the cache and generates successfully has, when it
\* returns, stored its result under its key, expiring 300 seconds later; and
\* a call made 300 seconds or more after the last write of its key (the store
\* answering the lookup) misses without an error: it resolves the model
\* again, and when it succeeds its result comes from a backend, not from the
\* store.
C13_WriteWithTTLThenExpiry ==
    /\ (IsGenerate /\ last.valid /\ last.error = NoError /\ last.dispatched # "none")
          => /\ cache[LastKey].val = json(sent[last.id].response.body)
             /\ cache[LastKey].exp = now + 300
             /\ sent[last.id].wroteAt = now
    /\ \A i \in 1..MaxRequests :
          (WroteKeyLongAgo(i) /\ last.getOk)
              => /\ last.resolved
                 /\ last.error = NoError
                      => /\ last.dispatched # "none"
                         /\ sent[last.id].response.body.request_id = last.id

\* a second call exactly 300 seconds after the write of the first one
C13_Witness ==
    \E i \in 1..MaxRequests :
        /\ WroteKeyLongAgo(i) /\ last.getOk
        /\ now = sent[i].wroteAt + 300
        /\ last.error = NoError /\ last.dispatched # "none"
        /\ cache[LastKey].exp = now + 300

\* C15: a generate call that fails is answered with HTTP 500 "Generation
\* failed" and its cause, carries no result, and leaves the response cache as
\* it was.
C15_FailureLeavesNoResult ==
    [][(last'.op = "generate" /\ last'.valid /\ last'.error # NoError)
          => /\ sent'[last'.id].response.status = 500
             /\ sent'[last'.id].response.body = NoResult
             /\ Len(sent'[last'.id].response.detail) >= 2
             /\ sent'[last'.id].response.detail[1] = "Generation failed"
             /\ cache' = cache]_vars

\* the cache write fails after the backend produced a text
C15_Witness ==
    /\ IsGenerate /\ last.valid
    /\ last.dispatched # "none"
    /\ sent[last.id].response.status = 500
    /\ sent[last.id].response.detail = <<"Generation failed", "cache_error">>
    /\ cache[LastKey] = EmptySlot

\* C17: a result generate returns carries the model of the request.
C17_ResultIsForRequestedModel ==
    (IsGenerate /\ last.valid /\ last.error = NoError)
        => sent[last.id].response.body.model_name = last.request.model

\* C14: the stop sequence the loop acts on is the first one in request order
\* that occurs in the decoded text, wherever the others occur: the text is cut
\* before its first occurrence and no later sequence is applied to the rest;
\* when none occurs the text is left as decoded. (The loop raises exactly
\* when the sequence it acts on is the empty string.)
C14_FirstInRequestOrderCuts ==
    last.op = "stop"
        => /\ last.raised <=> \E i \in 1..Len(last.stops) :
                                 Applies(last.text, last.stops, i) /\ last.stops[i] = <<>>
           /\ ~last.raised
                => /\ \A i \in 1..Len(last.stops) :
                          Applies(last.text, last.stops, i)
                              => last.cut = PartBefore(last.text, last.stops[i])
                   /\ (\A i \in 1..Len(last.stops) :
                          ~Contains(last.text, last.stops[i]))
                          => last.cut = last.text

\* "S" is second in the text and first in the request: it cuts, "a" does not
C14_Witness ==
    /\ last.op = "stop" /\ ~last.raised
    /\ last.text = <<"a", "S">>
    /\ last.stops = << <<"S">>, <<"a">> >>
    /\ last.cut = <<"a">>

\* C19: the truncation step never raises, whatever the decoded text and the
\* list of stop sequences, the empty string among them included.
C19_StopLoopNeverRaises ==
    last.op = "stop" => ~last.raised

(***************************************************************************)
(* Claims about training jobs                                              *)
(***************************************************************************)
\* C11: GET /training/{id} (the ledger answering the query) is a 404 exactly
\* for an id under which no job was accepted, and for an accepted job it
\* returns the status the ledger row has at that moment.
C11_StatusReflectsLedger ==
    (last.op = "status" /\ last.dbOk)
        => /\ last.code = 404 <=> runners[last.id] = "none"
           /\ runners[last.id] # "none"
                => /\ last.code = 200
                   /\ last.status = training_tasks[last.id].status

C11_Witness ==
    /\ last.op = "status" /\ last.dbOk
    /\ last.code = 200 /\ last.status = "pending"
    /\ runners[last.id] = "sleeping"
    /\ \E i \in TaskIds : training_tasks[i].status = "failed"

\* C12: the status of a job changes only along created -> pending,
\* pending -> running, running -> completed, running -> failed.
C12_Lifecycle ==
    [][\A i \in TaskIds :
          training_tasks'[i].status # training_tasks[i].status
              => <<training_tasks[i].status, training_tasks'[i].status>> \in
                     { <<"none", "pending">>, <<"pending", "running">>,
                       <<"running", "completed">>, <<"running", "failed">> }]_vars

\* C18: when the background task of an accepted job has returned, the job is
\* completed or failed.
C18_RunnerEndsTerminal ==
    \A i \in TaskIds :
        runners[i] = "done" => training_tasks[i].status \in {"completed", "failed"}

\* C20: every field the status panel subscripts in the branch it takes is a
\* field of the response of GET /training/{id}.
C20_PanelReadsExistingFields ==
    (last.op = "panel" /\ last.shown) => last.reads \subseteq last.fields

(***************************************************************************)
(* Claims about concurrent loads                                           *)
(***************************************************************************)
\* the calls of the race that loaded the model
Loaders == { k \in 1..Len(calls) : calls[k].loaded }

\* the loader that wrote the registry last
LastWriter ==
    CHOOSE k \in Loaders : \A j \in Loaders : calls[j].ret.gen <= calls[k].ret.gen

\* C16: when two or more concurrent load_model calls for one name have all
\* returned and at least one of them loaded the model, the registry holds
\* under that name the model of the call that wrote last, and the tokenizer
\* of the same load.
C16_RaceLeavesLastWriter ==
    (/\ Len(calls) >= 2
     /\ \A k \in 1..Len(calls) : calls[k].state = "returned"
     /\ Loaders # {})
        => /\ models[calls[1].name] = calls[LastWriter].ret
           /\ tokenizers[calls[1].name] = calls[LastWriter].ret
====
